---- MODULE Spec2Model ----
(***************************************************************************)
(* Model of the internet monitor dashboard.                                *)
(*   src/internet_monitor.py : class InternetMonitor (the monitoring core) *)
(*   src/app.py              : the cache refresher thread and the HTTP     *)
(*                             handlers /api/stats and /api/logs           *)
(* Python's None is the empty sequence Null, a present value v is <<v>>.    *)
(* Time is in whole seconds.                                               *)
(***************************************************************************)
EXTENDS Integers, Sequences, FiniteSets, TLC

\* ------------------------------------------------------------------ bounds
MaxCalls == 3        \* get_all_stats calls started in one behaviour
MaxRequests == 2     \* /api/stats requests issued by one reader
StartTime == 10      \* time.time() when app.py is imported
MaxTime == 40        \* the clock stops here
TickSeconds == 5     \* the clock's resolution
ProbeCalls == 1      \* calls started when every probe outcome is drawn
FailCalls == 2       \* calls started when every collector failure is drawn
MaxConns == 25       \* connections in the longest list net_connections returns
CensusCalls == 1     \* calls started when every connection list is drawn
MaxLogLines == 52    \* lines internet_events.log holds when the program starts
LogCalls == 1        \* calls started when the log file starts with old lines

\* ------------------------------------------------------- program constants
CACHE_TTL == 5
SLEEP_SECONDS == 10
JOIN_TIMEOUT == 8
RATE_INTERVAL == 10
KBIT == 1024
MEGABYTE == 1048576
MEGABIT == 1000000
PROCESS_LIMIT == 20
LOG_TAIL == 50

Null == <<>>
Some(v) == <<v>>

BG == "bg"
Readers == {"r1"}
Threads == {BG} \cup Readers
CallIds == 1..MaxCalls

test_urls == <<"https://www.google.com", "https://www.cloudflare.com", "https://1.1.1.1">>

\* ------------------------------------------------------------ input domains
\* What one requests.get can do: raise one of the requests exceptions, or
\* return a response carrying some status code.
Statuses == {199, 200, 399, 400}
ExceptionKinds == {"ConnectionError", "Timeout", "RequestException"}
ProbeOutcomes ==
    {[kind |-> k, status |-> 0] : k \in ExceptionKinds}
        \cup {[kind |-> "response", status |-> s] : s \in Statuses}
PingValues == {42}
\* cumulative byte counters psutil.net_io_counters() can report; a counter may
\* also go down (an interface reset).  No difference of two values lies
\* halfway between two hundredths, where round(x, 2) follows the float's bits.
SentValues == {0, 1, 102401}
RecvValues == {0, 2048}
\* bits per second reported by speedtest (whole megabits)
DownloadBps == {25000000}
UploadBps == {10000000}

\* established connections as psutil.net_connections(kind='inet') lists them;
\* pid 0 is a connection without a PID, lookup is what psutil.Process(pid) and
\* p.name() do for it
Conn(st, pid, lk) == [status |-> st, pid |-> pid, lookup |-> lk]
ConnLists ==
    { <<>>,
      <<Conn("ESTABLISHED", 7, "ok"), Conn("LISTEN", 8, "ok"),
        Conn("ESTABLISHED", 0, "ok"), Conn("ESTABLISHED", 9, "NoSuchProcess")>> }
\* connection i of a long list, in three layouts: every connection is an
\* established one of a live process i; every eighth process has vanished;
\* listening sockets, connections without PID and vanished or inaccessible
\* processes are mixed in
Layouts == {"all", "sparse", "mixed"}
ConnAt(i, layout) ==
    CASE layout = "all" -> Conn("ESTABLISHED", i, "ok")
      [] layout = "sparse" ->
            IF i % 8 = 3 THEN Conn("ESTABLISHED", i, "NoSuchProcess")
            ELSE Conn("ESTABLISHED", i, "ok")
      [] OTHER ->
            CASE i % 5 = 1 -> Conn("LISTEN", i, "ok")
              [] i % 5 = 2 -> Conn("ESTABLISHED", 0, "ok")
              [] i % 5 = 3 -> Conn("ESTABLISHED", i, "AccessDenied")
              [] i % 5 = 4 -> Conn("ESTABLISHED", i, "NoSuchProcess")
              [] OTHER -> Conn("ESTABLISHED", i, "ok")
\* the lists around the limit of 20 entries, and the empty one
LongConnLists ==
    {[i \in 1..n |-> ConnAt(i, l)] :
        n \in {0} \cup ((PROCESS_LIMIT - 1)..MaxConns), l \in Layouts}
IfaceOutcomes == {"found", "none", "error"}

\* logging.FileHandler appends: when the program starts the file holds the
\* lines of earlier runs, line i of them is OldLine(i)
OldLine(i) == ToString(i)
OldLog(n) == [i \in 1..n |-> OldLine(i)]
\* line counts around the 50 lines /api/logs returns, and the new file
OldLogSizes == {0} \cup ((LOG_TAIL - 3)..MaxLogLines)

\* ------------------------------------------------------------- log messages
WARN_HTTP == "WARNING - HTTP Error"
ERR_REQUEST == "ERROR - Request exception"
CRIT_DOWN == "CRITICAL - INTERNET DOWN - Initial detection"
INFO_RESTORED == "INFO - INTERNET RESTORED"
ERR_SPEEDTEST == "ERROR - Speedtest failed"
ERR_NETINFO == "ERROR - Network info error"
ERR_PROCSCAN == "ERROR - Process scan error"

\* ------------------------------------------------------------ pure helpers
\* round(n / d) to the nearest integer, ties to even (Python's round on an
\* exactly representable value); \div floors, as Python's // does
RoundDiv(n, d) ==
    LET q == n \div d
        r == n - q * d
    IN  IF 2 * r > d \/ (2 * r = d /\ q % 2 = 1) THEN q + 1 ELSE q

\* round(diff * 8 / 1024 / 10, 2), in hundredths of a kbit/s
RateKbps(diff) == RoundDiv(diff * 8 * 100, KBIT * RATE_INTERVAL)

\* round(bytes / 1_048_576, 2), in hundredths of a megabyte
TotalMb(bytes) == RoundDiv(bytes * 100, MEGABYTE)

\* st.download() / 1_000_000, in Mbit/s (the measured values of the model are
\* whole megabits, so the quotient is exact)
Mbps(bps) == bps \div MEGABIT

\* datetime.strftime('%Y-%m-%d %H:%M:%S')
Strftime(t) == ToString(t)

\* an upper bound that lets 400 through
StatusAvailableUpTo400(status) == 200 <= status /\ status <= 400

\* 200 <= response.status_code < 400
StatusAvailable(status) == 200 <= status /\ status < 400

\* --------------------------------------------- check_internet_availability
\* the loop leaving out the last URL
RECURSIVE ProbeLoopSkipLast(_, _, _, _, _)
ProbeLoopSkipLast(i, outcomes, ping, lg, probed) ==
    IF i >= Len(test_urls)
    THEN [responded |-> FALSE, status |-> 0, ping |-> Null, url |-> Null,
          log |-> lg, probed |-> probed]
    ELSE LET o == outcomes[i]
             seen == Append(probed, test_urls[i])
         IN  IF o.kind = "response"
             THEN [responded |-> TRUE, status |-> o.status, ping |-> Some(ping),
                   url |-> Some(test_urls[i]),
                   log |-> IF o.status >= 400 THEN Append(lg, WARN_HTTP) ELSE lg,
                   probed |-> seen]
             ELSE IF o.kind \in {"ConnectionError", "Timeout"}
             THEN ProbeLoopSkipLast(i + 1, outcomes, ping, lg, seen)
             ELSE ProbeLoopSkipLast(i + 1, outcomes, ping, Append(lg, ERR_REQUEST), seen)

\* The for loop over test_urls from index i on: outcomes[i] is what
\* requests.get does for test_urls[i].  probed lists the URLs requested.
RECURSIVE ProbeLoop(_, _, _, _, _)
ProbeLoop(i, outcomes, ping, lg, probed) ==
    IF i > Len(test_urls)
    THEN [responded |-> FALSE, status |-> 0, ping |-> Null, url |-> Null,
          log |-> lg, probed |-> probed]
    ELSE LET o == outcomes[i]
             seen == Append(probed, test_urls[i])
         IN  IF o.kind = "response"
             THEN [responded |-> TRUE, status |-> o.status, ping |-> Some(ping),
                   url |-> Some(test_urls[i]),
                   log |-> IF o.status >= 400 THEN Append(lg, WARN_HTTP) ELSE lg,
                   probed |-> seen]
             ELSE IF o.kind \in {"ConnectionError", "Timeout"}
             THEN ProbeLoop(i + 1, outcomes, ping, lg, seen)
             ELSE ProbeLoop(i + 1, outcomes, ping, Append(lg, ERR_REQUEST), seen)

\* every failed check taken for a first detection
FirstDetectionAlways(ldt) == TRUE

\* if self.last_down_time is None
FirstDetection(ldt) == ldt = Null

\* check_internet_availability: the value returned, the new last_down_time
\* and log, and the URLs probed
CheckInternetAvailability(outcomes, ping, ldt, lg, t) ==
    LET p == ProbeLoop(1, outcomes, ping, lg, <<>>)
    IN  IF p.responded
        THEN [result |-> [available |-> StatusAvailable(p.status),
                          status_code |-> p.status,
                          ping |-> p.ping,
                          test_url |-> p.url],
              last_down_time |-> ldt, log |-> p.log, probed |-> p.probed]
        ELSE [result |-> [available |-> FALSE, status_code |-> 0,
                          ping |-> Null, test_url |-> Null],
              last_down_time |-> IF FirstDetection(ldt) THEN Some(t) ELSE ldt,
              log |-> IF FirstDetection(ldt) THEN Append(p.log, CRIT_DOWN) ELSE p.log,
              probed |-> p.probed]

\* ------------------------------------------------------------ measure_speed
\* fail names the step that raises: "none", "server" (Speedtest() or
\* get_best_server), "download" or "upload".  The except clause logs and the
\* function returns result as the steps before the failure left it.
SpeedFailures == {"none", "server", "download", "upload"}
MeasureSpeed(fail, dl, ul, lg) ==
    [result |-> [download |-> IF fail \in {"server", "download"} THEN Null
                              ELSE Some(Mbps(dl)),
                 upload |-> IF fail = "none" THEN Some(Mbps(ul)) ELSE Null],
     log |-> IF fail = "none" THEN lg ELSE Append(lg, ERR_SPEEDTEST)]

\* --------------------------------------------------------- get_network_info
\* iface: "found" (a non-loopback interface with an IPv4 address and a link
\* address), "none" (no such interface), "error" (netifaces raises)
GetNetworkInfo(iface, lg) ==
    [info |-> [hostname |-> "host",
               local_ip |-> IF iface = "found" THEN "192.168.1.10" ELSE "N/A",
               mac_address |-> IF iface = "found" THEN "aa:bb:cc:dd:ee:ff" ELSE "N/A",
               interface_name |-> IF iface = "found" THEN "eth0" ELSE "N/A"],
     log |-> IF iface = "error" THEN Append(lg, ERR_NETINFO) ELSE lg]

\* -------------------------------------------------------- get_traffic_usage
\* a baseline that keeps the difference instead of the counters
NewBaselineDelta(cur, base) == [sent |-> cur.sent - base.sent, recv |-> cur.recv - base.recv]

\* cur: the counters just read; base: self.traffic_stats before the call
NewBaseline(cur, base) == [sent |-> cur.sent, recv |-> cur.recv]
GetTrafficUsage(cur, base) ==
    [traffic |-> [sent_total_mb |-> TotalMb(cur.sent),
                  recv_total_mb |-> TotalMb(cur.recv),
                  sent_rate_kbps |-> RateKbps(cur.sent - base.sent),
                  recv_rate_kbps |-> RateKbps(cur.recv - base.recv)],
     traffic_stats |-> NewBaseline(cur, base)]

\* ---------------------------------------------------- get_network_processes
RECURSIVE ScanConnections(_, _)
ScanConnections(conns, acc) ==
    IF conns = <<>> THEN acc
    ELSE LET c == Head(conns)
         IN  IF c.status = "ESTABLISHED" /\ c.pid # 0 /\ c.lookup = "ok"
             THEN ScanConnections(Tail(conns), Append(acc, [pid |-> c.pid, status |-> c.status]))
             ELSE ScanConnections(Tail(conns), acc)

\* the last n entries
TruncateTail(s, n) == IF Len(s) <= n THEN s ELSE SubSeq(s, Len(s) - n + 1, Len(s))

\* processes[:20]
Truncate(s, n) == IF Len(s) <= n THEN s ELSE SubSeq(s, 1, n)

\* enum_ok = FALSE: psutil.net_connections raises
GetNetworkProcesses(enum_ok, conns, lg) ==
    [processes |-> IF enum_ok THEN Truncate(ScanConnections(conns, <<>>), PROCESS_LIMIT)
                   ELSE <<>>,
     log |-> IF enum_ok THEN lg ELSE Append(lg, ERR_PROCSCAN)]

\* ------------------------------------------------------------------- state
VARIABLES
    now,             \* time.time() / datetime.now(), in seconds
    cache_lock,      \* app.py cache_lock: "free" or the thread holding it
    cached_stats,    \* app.py global cached_stats
    cache_time,      \* app.py global cache_time
    pc,              \* where each thread of app.py is
    frame,           \* the locals of each thread's get_all_stats call
    wake,            \* when the refresher's time.sleep(10) ends
    response,        \* what the last /api/stats request of a reader returned
    nreq,            \* requests issued by each reader
    logs_response,   \* what the last /api/logs request returned
    ncalls,          \* get_all_stats calls started
    last_down_time,  \* InternetMonitor.last_down_time
    traffic_stats,   \* InternetMonitor.traffic_stats
    log,             \* the lines of internet_events.log
    speed_result,    \* the speed_result dict created by each call
    speed_thread,    \* the speed thread started by each call
    hist,            \* history: what each call's availability check did
    reads,           \* history: the last two counter readings
    last_traffic     \* history: the value get_traffic_usage last returned

vars == <<now, cache_lock, cached_stats, cache_time, pc, frame, wake, response,
          nreq, ncalls, last_down_time, traffic_stats, log, speed_result,
          speed_thread, hist, reads, last_traffic, logs_response>>

appVars == <<cache_lock, cached_stats, cache_time, pc, wake, response, nreq,
             logs_response>>
monitorVars == <<last_down_time, traffic_stats, log>>
speedVars == <<speed_result, speed_thread>>
histVars == <<hist, reads, last_traffic>>

CounterReads == {[sent |-> s, recv |-> r] : s \in SentValues, r \in RecvValues}

\* cached_stats = {}
EmptyStats == [id |-> 0]
NoAvailability == [available |-> FALSE, status_code |-> 0, ping |-> Null, test_url |-> Null]
NoSpeed == [download |-> Null, upload |-> Null]
NoTraffic == [sent_total_mb |-> 0, recv_total_mb |-> 0, sent_rate_kbps |-> 0, recv_rate_kbps |-> 0]
IdleFrame == [id |-> 0, availability |-> NoAvailability, outcomes |-> <<>>,
              probed |-> <<>>, deadline |-> 0, stats |-> EmptyStats]
NewFrame(id) == [IdleFrame EXCEPT !.id = id]
\* stale records what the handler's TTL test found
NoResponse == [code |-> 0, body |-> Null, stale |-> FALSE]
NoHist == [started |-> FALSE, available |-> FALSE, went_down |-> FALSE,
           went_up |-> FALSE, completed |-> FALSE, timed_out |-> FALSE,
           speed_fail |-> "unset", launched |-> 0, enum_ok |-> TRUE, conns |-> <<>>]

\* InternetMonitor.__init__ and the module level of app.py, in environment e
InitIn(e) ==
    /\ now = StartTime
    /\ cache_lock = "free"
    /\ cached_stats = EmptyStats
    /\ cache_time = 0
    /\ pc = [t \in Threads |-> IF t = BG THEN "acquire" ELSE "idle"]
    /\ frame = [t \in Threads |-> IdleFrame]
    /\ wake = 0
    /\ response = [r \in Readers |-> NoResponse]
    /\ nreq = [r \in Readers |-> 0]
    /\ ncalls = 0
    /\ last_down_time = Null
    /\ \E c \in e.counters :
          /\ traffic_stats = [sent |-> c.sent, recv |-> c.recv]
          /\ reads = [prev |-> c, cur |-> c]
    /\ \E n \in e.oldlogs : log = OldLog(n)
    /\ logs_response = Null
    /\ speed_result = [i \in CallIds |-> NoSpeed]
    /\ speed_thread = [i \in CallIds |-> "none"]
    /\ hist = [i \in CallIds |-> NoHist]
    /\ last_traffic = Null

\* ------------------------------------------------------------ get_all_stats
\* a lock that never blocks
LockFreeNever == TRUE

\* with cache_lock: the lock can be taken
LockFree == cache_lock = "free"

\* a speed thread whatever the availability
LaunchSpeedAlways(availability) == TRUE

\* if availability['available']: the speed thread is created and started
LaunchSpeed(availability) == availability.available

\* availability = self.check_internet_availability(); the speed thread is
\* started when available
GasCheck(t, e) ==
    /\ pc[t] = "check"
    /\ \E outcomes \in e.outcomes, ping \in PingValues :
          LET r == CheckInternetAvailability(outcomes, ping, last_down_time, log, now)
              id == frame[t].id
          IN  /\ last_down_time' = r.last_down_time
              /\ log' = r.log
              /\ frame' = [frame EXCEPT ![t].availability = r.result,
                                        ![t].outcomes = outcomes,
                                        ![t].probed = r.probed,
                                        ![t].deadline = now + JOIN_TIMEOUT]
              /\ hist' = [hist EXCEPT ![id] =
                            [@ EXCEPT !.started = TRUE,
                                      !.available = r.result.available,
                                      !.went_down = (r.last_down_time # last_down_time),
                                      !.launched = IF LaunchSpeed(r.result)
                                                   THEN @ + 1 ELSE @]]
              /\ IF LaunchSpeed(r.result)
                 THEN /\ speed_thread' = [speed_thread EXCEPT ![id] = "running"]
                      /\ pc' = [pc EXCEPT ![t] = "join"]
                 ELSE /\ speed_thread' = speed_thread
                      /\ pc' = [pc EXCEPT ![t] = "assemble"]
    /\ UNCHANGED <<now, cache_lock, cached_stats, cache_time, wake, response, nreq,
                   ncalls, traffic_stats, speed_result, reads, last_traffic,
                   logs_response>>

\* speed_thread.join(timeout=8) returns because the thread has finished
GasJoinDone(t) ==
    /\ pc[t] = "join"
    /\ speed_thread[frame[t].id] = "done"
    /\ pc' = [pc EXCEPT ![t] = "assemble"]
    /\ UNCHANGED <<now, cache_lock, cached_stats, cache_time, frame, wake, response,
                   nreq, ncalls, monitorVars, speedVars, histVars,
                   logs_response>>

\* speed_thread.join(timeout=8) returns because 8 seconds have passed
GasJoinTimeout(t) ==
    /\ pc[t] = "join"
    /\ speed_thread[frame[t].id] = "running"
    /\ now >= frame[t].deadline
    /\ pc' = [pc EXCEPT ![t] = "assemble"]
    /\ hist' = [hist EXCEPT ![frame[t].id].timed_out = TRUE]
    /\ UNCHANGED <<now, cache_lock, cached_stats, cache_time, frame, wake, response,
                   nreq, ncalls, monitorVars, speedVars, reads, last_traffic,
                   logs_response>>

\* the lambda run by the speed thread: speed_result.update(self.measure_speed())
SpeedThreadRun(id, e) ==
    /\ speed_thread[id] = "running"
    /\ \E fail \in e.speed, dl \in DownloadBps, ul \in UploadBps :
          LET m == MeasureSpeed(fail, dl, ul, log)
          IN  /\ log' = m.log
              /\ speed_result' = [speed_result EXCEPT ![id] = m.result]
              /\ hist' = [hist EXCEPT ![id].speed_fail = fail]
    /\ speed_thread' = [speed_thread EXCEPT ![id] = "done"]
    /\ UNCHANGED <<now, appVars, frame, ncalls, last_down_time, traffic_stats,
                   reads, last_traffic>>

\* self.last_down_time.strftime(...) if self.last_down_time else 'Never'
LastDownField(ldt) == IF ldt = Null THEN "Never" ELSE Strftime(ldt[1])

\* the stats dict; speed holds the reference to the call's speed_result dict
BuildStats(id, t, availability, info, traffic, processes, ldt) ==
    [id |-> id,
     timestamp |-> Strftime(t),
     availability |-> availability,
     speed |-> id,
     network_info |-> info,
     traffic |-> traffic,
     processes |-> processes,
     last_down |-> LastDownField(ldt)]

\* a restoration on every available result
RestoredAlways(availability, ldt) == availability.available

\* if availability['available'] and self.last_down_time
Restored(availability, ldt) == availability.available /\ ldt # Null

\* What fails while the stats dict is built: nothing, socket.gethostname()
\* or psutil.net_io_counters(); neither call is inside a try.
AssembleFailures == {"none", "hostname", "net_io"}

\* lines 204-220: the stats dict is built (get_network_info,
\* get_traffic_usage, get_network_processes, last_down), then the restoration
\* is logged and last_down_time cleared, then stats is returned (the record
\* of the probes, a history of the availability call, ends with it; the
\* history keeps the connections net_connections listed, none when it raised)
GasAssemble(t, e) ==
    /\ pc[t] = "assemble"
    /\ \E fail \in e.fails, iface \in e.ifaces, cur \in e.counters,
          enum_ok \in e.enums, conns \in e.conns :
          LET id == frame[t].id
              av == frame[t].availability
              ni == GetNetworkInfo(iface, log)
              tr == GetTrafficUsage(cur, traffic_stats)
              np == GetNetworkProcesses(enum_ok, conns, ni.log)
              stats == BuildStats(id, now, av, ni.info, tr.traffic, np.processes,
                                  last_down_time)
          IN  CASE fail = "hostname" ->
                     /\ pc' = [pc EXCEPT ![t] = "raise"]
                     /\ UNCHANGED <<frame, monitorVars, histVars>>
                [] fail = "net_io" ->
                     /\ pc' = [pc EXCEPT ![t] = "raise"]
                     /\ log' = ni.log
                     /\ UNCHANGED <<frame, last_down_time, traffic_stats, histVars>>
                [] OTHER ->
                     /\ pc' = [pc EXCEPT ![t] = "return"]
                     /\ frame' = [frame EXCEPT ![t].stats = stats,
                                               ![t].outcomes = <<>>,
                                               ![t].probed = <<>>]
                     /\ traffic_stats' = tr.traffic_stats
                     /\ reads' = [prev |-> reads.cur, cur |-> cur]
                     /\ last_traffic' = Some(tr.traffic)
                     /\ IF Restored(av, last_down_time)
                        THEN /\ log' = Append(np.log, INFO_RESTORED)
                             /\ last_down_time' = Null
                             /\ hist' = [hist EXCEPT ![id].went_up = TRUE,
                                                     ![id].completed = TRUE,
                                                     ![id].enum_ok = enum_ok,
                                                     ![id].conns = IF enum_ok THEN conns ELSE <<>>]
                        ELSE /\ log' = np.log
                             /\ last_down_time' = last_down_time
                             /\ hist' = [hist EXCEPT ![id].completed = TRUE,
                                                     ![id].enum_ok = enum_ok,
                                                     ![id].conns = IF enum_ok THEN conns ELSE <<>>]
    /\ UNCHANGED <<now, cache_lock, cached_stats, cache_time, wake, response, nreq,
                   ncalls, speedVars,
                   logs_response>>

\* ------------------------------------------------------ app.py update_cache
\* the refresher without the with block
BgAcquireNoLock(e) ==
    /\ pc[BG] = "acquire"
    /\ ncalls < e.calls
    /\ cache_lock' = BG
    /\ ncalls' = ncalls + 1
    /\ frame' = [frame EXCEPT ![BG] = NewFrame(ncalls + 1)]
    /\ pc' = [pc EXCEPT ![BG] = "check"]
    /\ UNCHANGED <<now, cached_stats, cache_time, wake, response, nreq,
                   monitorVars, speedVars, histVars, logs_response>>

\* with cache_lock: ... monitor.get_all_stats() is entered
BgAcquire(e) ==
    /\ pc[BG] = "acquire"
    /\ LockFree
    /\ ncalls < e.calls
    /\ cache_lock' = BG
    /\ ncalls' = ncalls + 1
    /\ frame' = [frame EXCEPT ![BG] = NewFrame(ncalls + 1)]
    /\ pc' = [pc EXCEPT ![BG] = "check"]
    /\ UNCHANGED <<now, cached_stats, cache_time, wake, response, nreq,
                   monitorVars, speedVars, histVars,
                   logs_response>>

\* cached_stats = monitor.get_all_stats()
BgStoreStats ==
    /\ pc[BG] = "return"
    /\ cached_stats' = frame[BG].stats
    /\ pc' = [pc EXCEPT ![BG] = "store_time"]
    /\ UNCHANGED <<now, cache_lock, cache_time, frame, wake, response, nreq, ncalls,
                   monitorVars, speedVars, histVars,
                   logs_response>>

\* cache_time = time.time(); the lock is released; time.sleep(10) begins
BgStoreTime ==
    /\ pc[BG] = "store_time"
    /\ cache_time' = now
    /\ cache_lock' = "free"
    /\ wake' = now + SLEEP_SECONDS
    /\ frame' = [frame EXCEPT ![BG] = IdleFrame]
    /\ pc' = [pc EXCEPT ![BG] = "sleep"]
    /\ UNCHANGED <<now, cached_stats, response, nreq, ncalls,
                   monitorVars, speedVars, histVars,
                   logs_response>>

\* get_all_stats raised: the with block releases the lock, nothing catches
\* the exception and the refresher thread ends
BgRaise ==
    /\ pc[BG] = "raise"
    /\ cache_lock' = "free"
    /\ frame' = [frame EXCEPT ![BG] = IdleFrame]
    /\ pc' = [pc EXCEPT ![BG] = "dead"]
    /\ UNCHANGED <<now, cached_stats, cache_time, wake, response, nreq, ncalls,
                   monitorVars, speedVars, histVars,
                   logs_response>>

\* time.sleep(10) returns
BgWake ==
    /\ pc[BG] = "sleep"
    /\ now >= wake
    /\ pc' = [pc EXCEPT ![BG] = "acquire"]
    /\ UNCHANGED <<now, cache_lock, cached_stats, cache_time, frame, wake, response,
                   nreq, ncalls, monitorVars, speedVars, histVars,
                   logs_response>>

\* --------------------------------------------------------- app.py get_stats
\* jsonify(stats): the dict is serialised, the speed dict by its value now
Jsonify(stats) == [stats EXCEPT !.speed = speed_result[stats.speed]]

\* time.time() - cache_time > CACHE_TTL
Stale == now - cache_time > CACHE_TTL

\* a GET /api/stats request arrives
ReaderRequest(r) ==
    /\ pc[r] = "idle"
    /\ nreq[r] < MaxRequests
    /\ nreq' = [nreq EXCEPT ![r] = @ + 1]
    /\ response' = [response EXCEPT ![r] = NoResponse]
    /\ pc' = [pc EXCEPT ![r] = "acquire"]
    /\ UNCHANGED <<now, cache_lock, cached_stats, cache_time, frame, wake, ncalls,
                   monitorVars, speedVars, histVars,
                   logs_response>>

\* the handler without the with block
ReaderAcquireNoLock(r) ==
    /\ pc[r] = "acquire"
    /\ pc' = [pc EXCEPT ![r] = "ttl"]
    /\ UNCHANGED <<now, cache_lock, cached_stats, cache_time, frame, wake, response,
                   nreq, ncalls, monitorVars, speedVars, histVars, logs_response>>

\* with cache_lock:
ReaderAcquire(r) ==
    /\ pc[r] = "acquire"
    /\ LockFree
    /\ cache_lock' = r
    /\ pc' = [pc EXCEPT ![r] = "ttl"]
    /\ UNCHANGED <<now, cached_stats, cache_time, frame, wake, response, nreq, ncalls,
                   monitorVars, speedVars, histVars,
                   logs_response>>

\* the cache is stale: monitor.get_all_stats() is entered
ReaderStale(r, e) ==
    /\ pc[r] = "ttl"
    /\ Stale
    /\ ncalls < e.calls
    /\ ncalls' = ncalls + 1
    /\ frame' = [frame EXCEPT ![r] = NewFrame(ncalls + 1)]
    /\ pc' = [pc EXCEPT ![r] = "check"]
    /\ UNCHANGED <<now, cache_lock, cached_stats, cache_time, wake, response, nreq,
                   monitorVars, speedVars, histVars,
                   logs_response>>

\* the cache is fresh: cached_stats is a local name of get_stats (the function
\* assigns it and declares no global), unbound on this path, so
\* jsonify(cached_stats) raises UnboundLocalError and the request ends 500
ReaderFresh(r) ==
    /\ pc[r] = "ttl"
    /\ ~Stale
    /\ response' = [response EXCEPT ![r] = [code |-> 500, body |-> Null, stale |-> FALSE]]
    /\ cache_lock' = "free"
    /\ pc' = [pc EXCEPT ![r] = "idle"]
    /\ UNCHANGED <<now, cached_stats, cache_time, frame, wake, nreq, ncalls,
                   monitorVars, speedVars, histVars,
                   logs_response>>

\* the handler with cached_stats declared global: the assignment writes the
\* module's cache
ReaderReturnGlobal(r) ==
    /\ pc[r] = "return"
    /\ response' = [response EXCEPT ![r] =
                      [code |-> 200, body |-> Some(Jsonify(frame[r].stats)),
                       stale |-> TRUE]]
    /\ cached_stats' = frame[r].stats
    /\ cache_lock' = "free"
    /\ frame' = [frame EXCEPT ![r] = IdleFrame]
    /\ pc' = [pc EXCEPT ![r] = "idle"]
    /\ UNCHANGED <<now, cache_time, wake, nreq, ncalls,
                   monitorVars, speedVars, histVars,
                   logs_response>>

\* cached_stats = monitor.get_all_stats() binds the local; return jsonify(it)
ReaderReturn(r) ==
    /\ pc[r] = "return"
    /\ response' = [response EXCEPT ![r] =
                      [code |-> 200, body |-> Some(Jsonify(frame[r].stats)),
                       stale |-> TRUE]]
    /\ cache_lock' = "free"
    /\ frame' = [frame EXCEPT ![r] = IdleFrame]
    /\ pc' = [pc EXCEPT ![r] = "idle"]
    /\ UNCHANGED <<now, cached_stats, cache_time, wake, nreq, ncalls,
                   monitorVars, speedVars, histVars,
                   logs_response>>

\* get_all_stats raised inside the handler: the lock is released and the
\* request ends 500
ReaderRaise(r) ==
    /\ pc[r] = "raise"
    /\ response' = [response EXCEPT ![r] = [code |-> 500, body |-> Null, stale |-> TRUE]]
    /\ cache_lock' = "free"
    /\ frame' = [frame EXCEPT ![r] = IdleFrame]
    /\ pc' = [pc EXCEPT ![r] = "idle"]
    /\ UNCHANGED <<now, cached_stats, cache_time, wake, nreq, ncalls,
                   monitorVars, speedVars, histVars,
                   logs_response>>

\* the first n lines
FirstLines(lines, n) == IF Len(lines) <= n THEN lines ELSE SubSeq(lines, 1, n)

\* f.readlines()[-50:]
LastLines(lines, n) ==
    IF Len(lines) <= n THEN lines ELSE SubSeq(lines, Len(lines) - n + 1, Len(lines))

\* GET /api/logs: the file is read and its last 50 lines returned; found =
\* FALSE: open() raises FileNotFoundError and the answer is {'logs': []}
GetLogs(e) ==
    /\ \E found \in e.logfile :
          logs_response' =
              Some([found |-> found,
                    logs |-> IF found THEN LastLines(log, LOG_TAIL) ELSE <<>>])
    /\ UNCHANGED <<now, cache_lock, cached_stats, cache_time, pc, frame, wake,
                   response, nreq, ncalls, monitorVars, speedVars, histVars>>

\* time passes
Tick ==
    /\ now + TickSeconds <= MaxTime
    /\ now' = now + TickSeconds
    /\ UNCHANGED <<appVars, frame, ncalls, monitorVars, speedVars, histVars>>

\* ------------------------------------------------------------ environments
\* An environment names what the outside world may do in one behaviour: the
\* outcomes of the three probes, the step of the speed test that fails, the
\* collector that raises, what the host reports, and how many get_all_stats
\* calls are started.
AllFail(k) == [i \in 1..Len(test_urls) |-> [kind |-> k, status |-> 0]]
AllRespond(s) == [i \in 1..Len(test_urls) |-> [kind |-> "response", status |-> s]]
OneConn == <<Conn("ESTABLISHED", 7, "ok")>>
ZeroCounters == [sent |-> 0, recv |-> 0]

\* the whole program: refresher and HTTP handler
SysEnv ==
    [outcomes |-> {AllFail("ConnectionError"), AllRespond(200)},
     speed |-> {"none"},
     fails |-> {"none", "net_io"},
     ifaces |-> {"found"},
     counters |-> {ZeroCounters},
     enums |-> {TRUE},
     conns |-> {OneConn},
     oldlogs |-> {0},
     logfile |-> {TRUE},
     calls |-> MaxCalls]

\* the whole program with no failing collector
AppEnv == [SysEnv EXCEPT !.fails = {"none"}]

\* successive get_all_stats calls over the kinds of availability result
SeqEnv ==
    [outcomes |-> {AllFail("ConnectionError"), AllRespond(200), AllRespond(400)},
     speed |-> {"none"},
     fails |-> {"none"},
     ifaces |-> {"found"},
     counters |-> {ZeroCounters},
     enums |-> {TRUE},
     conns |-> {OneConn},
     oldlogs |-> {0},
     logfile |-> {TRUE},
     calls |-> MaxCalls]

\* every outcome of every probe
ProbeEnv ==
    [outcomes |-> [1..Len(test_urls) -> ProbeOutcomes],
     speed |-> {"none"},
     fails |-> {"none"},
     ifaces |-> {"found"},
     counters |-> {ZeroCounters},
     enums |-> {TRUE},
     conns |-> {OneConn},
     oldlogs |-> {0},
     logfile |-> {TRUE},
     calls |-> ProbeCalls]

\* every counter reading
TrafficEnv ==
    [outcomes |-> {AllRespond(200)},
     speed |-> {"none"},
     fails |-> {"none"},
     ifaces |-> {"found"},
     counters |-> CounterReads,
     enums |-> {TRUE},
     conns |-> {OneConn},
     oldlogs |-> {0},
     logfile |-> {TRUE},
     calls |-> MaxCalls]

\* every failure of every collector
FailEnv ==
    [outcomes |-> {AllFail("RequestException"), AllRespond(200)},
     speed |-> SpeedFailures,
     fails |-> AssembleFailures,
     ifaces |-> IfaceOutcomes,
     counters |-> {ZeroCounters},
     enums |-> BOOLEAN,
     conns |-> ConnLists,
     oldlogs |-> {0},
     logfile |-> {TRUE},
     calls |-> FailCalls]

\* every connection list, long ones included
CensusEnv ==
    [outcomes |-> {AllRespond(200)},
     speed |-> {"none"},
     fails |-> {"none"},
     ifaces |-> {"found"},
     counters |-> {ZeroCounters},
     enums |-> BOOLEAN,
     conns |-> LongConnLists,
     oldlogs |-> {0},
     logfile |-> {TRUE},
     calls |-> CensusCalls]

\* the log file of earlier runs, and every way the log grows in one call
LogEnv ==
    [SeqEnv EXCEPT !.outcomes = {AllFail("RequestException"), AllRespond(200)},
                   !.oldlogs = OldLogSizes,
                   !.logfile = BOOLEAN,
                   !.calls = LogCalls]

Monitor(e) ==
    \/ \E t \in Threads : GasCheck(t, e)
    \/ \E t \in Threads : GasJoinDone(t)
    \/ \E t \in Threads : GasJoinTimeout(t)
    \/ \E t \in Threads : GasAssemble(t, e)
    \/ \E id \in CallIds : SpeedThreadRun(id, e)

Refresher(e) ==
    \/ BgAcquire(e)
    \/ BgStoreStats
    \/ BgStoreTime
    \/ BgWake

Handler(e) ==
    \/ \E r \in Readers : ReaderRequest(r)
    \/ \E r \in Readers : ReaderAcquire(r)
    \/ \E r \in Readers : ReaderStale(r, e)
    \/ \E r \in Readers : ReaderFresh(r)
    \/ \E r \in Readers : ReaderReturn(r)

HandlerRaise == \E r \in Readers : ReaderRaise(r)

\* the program: refresher thread, request handlers, speed threads, the clock
Init == InitIn(SysEnv)
Next ==
    Monitor(SysEnv) \/ Refresher(SysEnv) \/ BgRaise \/ Handler(SysEnv) \/ HandlerRaise \/ Tick
Spec == Init /\ [][Next]_vars

InitApp == InitIn(AppEnv)
NextApp == Monitor(AppEnv) \/ Refresher(AppEnv) \/ Handler(AppEnv) \/ Tick
SpecApp == InitApp /\ [][NextApp]_vars

\* the refresher alone (no request arrives), per environment
InitSeq == InitIn(SeqEnv)
NextSeq == Monitor(SeqEnv) \/ Refresher(SeqEnv) \/ Tick
SpecSeq == InitSeq /\ [][NextSeq]_vars

InitProbe == InitIn(ProbeEnv)
NextProbe == Monitor(ProbeEnv) \/ Refresher(ProbeEnv) \/ Tick
SpecProbe == InitProbe /\ [][NextProbe]_vars

InitTraffic == InitIn(TrafficEnv)
NextTraffic == Monitor(TrafficEnv) \/ Refresher(TrafficEnv) \/ Tick
SpecTraffic == InitTraffic /\ [][NextTraffic]_vars

\* the refresher and /api/logs requests
InitLogs == InitIn(LogEnv)
NextLogs == Monitor(LogEnv) \/ Refresher(LogEnv) \/ GetLogs(LogEnv) \/ Tick
SpecLogs == InitLogs /\ [][NextLogs]_vars

InitCensus == InitIn(CensusEnv)
NextCensus == Monitor(CensusEnv) \/ Refresher(CensusEnv) \/ Tick
SpecCensus == InitCensus /\ [][NextCensus]_vars

InitFail == InitIn(FailEnv)
NextFail == Monitor(FailEnv) \/ Refresher(FailEnv) \/ BgRaise \/ Tick
SpecFail == InitFail /\ [][NextFail]_vars

\* ================================================================== claims

\* ------------------------------------------------------------------- C1
\* call i's result is the first of a maximal run of available=false results
C1_FirstOfRun(i) == ~hist[i].available /\ (i = 1 \/ hist[i - 1].available)
\* call i's result is the first available=true result after such a run
C1_FirstAfterRun(i) == hist[i].available /\ i > 1 /\ ~hist[i - 1].available

\* C1: over successive get_all_stats calls the downtime tracker goes UP->DOWN
\* (last_down_time set, CRITICAL logged) on exactly the first result of every
\* maximal run of available=false results, whatever produced it (an HTTP
\* status >= 400 included), and DOWN->UP (INFO logged, last_down_time cleared)
\* on exactly the first available=true result after the run.
C1_TransitionOncePerRun ==
    \A i \in CallIds :
        hist[i].completed =>
            /\ hist[i].went_down = C1_FirstOfRun(i)
            /\ hist[i].went_up = C1_FirstAfterRun(i)

\* ------------------------------------------------------------------- C2
\* the keys of the stats dict (id stands for the dict's identity)
SnapshotKeys == {"id", "timestamp", "availability", "speed", "network_info",
                 "traffic", "processes", "last_down"}
IsSnapshot(body) == body # Null /\ DOMAIN body[1] = SnapshotKeys

\* C2: every GET /api/stats request returns a complete snapshot and never
\* fails: with a cache at most 5 seconds old it returns the snapshot the
\* refresher last wrote, with an older cache a freshly computed one.
C2_StatsAlwaysServed ==
    \A r \in Readers :
        response[r].code # 0 =>
            /\ response[r].code = 200
            /\ IsSnapshot(response[r].body)
            /\ ~response[r].stale => response[r].body[1].id = cached_stats.id

\* ------------------------------------------------------------------- C3
\* the refresher has built a snapshot and not finished publishing it
C3_Publishing == pc[BG] \in {"return", "store_time"}

\* C3: under any interleaving of the refresher with /api/stats readers a
\* reader never observes a partially constructed snapshot: while a reader
\* tests the cache or serialises, the refresher is not between building a
\* snapshot and finishing its publication (cached_stats written, cache_time
\* not yet), and whatever a reader serialises is a complete snapshot.
C3_NoPartialSnapshot ==
    \A r \in Readers :
        /\ pc[r] \in {"ttl", "return"} => ~C3_Publishing
        /\ pc[r] = "return" => DOMAIN frame[r].stats = SnapshotKeys
        /\ response[r].code = 200 => IsSnapshot(response[r].body)

\* a reader serialises its snapshot while the refresher, which has already
\* published one, is back at the lock for the next refresh
C3_Witness ==
    \E r \in Readers :
        /\ pc[r] = "return"
        /\ pc[BG] = "acquire"
        /\ cached_stats # EmptyStats

\* ------------------------------------------------------------------- C4
\* C4: when the 8-second wait ends before measure_speed finishes, the
\* snapshot returned has both speed fields absent and the late result of the
\* abandoned thread never changes them.
C4_LateResultIgnored ==
    (cached_stats # EmptyStats /\ hist[cached_stats.id].timed_out)
        => speed_result[cached_stats.speed] = NoSpeed

\* ------------------------------------------------------------------- C5
\* C5: no failure of a sub-collector aborts get_all_stats: it raises nothing
\* to its caller, whichever of the probe transport, the speed test, interface
\* enumeration, hostname lookup, the byte-counter read and the connection
\* enumeration fails.
C5_NeverRaises == \A t \in Threads : pc[t] \notin {"raise", "dead"}

\* ------------------------------------------------------------------- C6
\* C6: measure_speed never raises, and when any of its steps fails (server
\* selection, download, upload) the result has both download and upload
\* absent.
C6_FailureBothAbsent ==
    \A id \in CallIds :
        (speed_thread[id] = "done" /\ hist[id].speed_fail \in {"server", "download", "upload"})
            => speed_result[id] = NoSpeed

\* ------------------------------------------------------------------- C7
\* thread t's availability check has run and its call has not yet built stats
Checked(t) == frame[t].outcomes # <<>>
Responds(o) == {k \in 1..Len(test_urls) : o[k].kind = "response"}
FirstResponse(o) == CHOOSE k \in Responds(o) : \A j \in Responds(o) : k <= j

\* C7: check_internet_availability probes the endpoints in their fixed order
\* and returns on the first one that yields an HTTP response, whatever its
\* status: test_url is that endpoint, status_code its status, available is
\* true exactly when 200 <= status < 400, no later endpoint is probed, and
\* only exceptions of requests advance to the next endpoint.
C7_FirstResponseDecides ==
    \A t \in Threads :
        (Checked(t) /\ Responds(frame[t].outcomes) # {}) =>
            LET o == frame[t].outcomes
                k == FirstResponse(o)
                a == frame[t].availability
            IN  /\ a.test_url = Some(test_urls[k])
                /\ a.status_code = o[k].status
                /\ a.available = (200 <= o[k].status /\ o[k].status < 400)
                /\ frame[t].probed = SubSeq(test_urls, 1, k)
                /\ \A j \in 1..(k - 1) : o[j].kind \in ExceptionKinds

\* the first endpoint times out, the second answers 400 while the third would
\* have answered 200: the result is the second endpoint's, unavailable
C7_Witness ==
    \E t \in Threads :
        /\ Checked(t)
        /\ frame[t].outcomes[1].kind = "Timeout"
        /\ frame[t].outcomes[2] = [kind |-> "response", status |-> 400]
        /\ frame[t].outcomes[3] = [kind |-> "response", status |-> 200]
        /\ frame[t].availability.test_url = Some(test_urls[2])
        /\ ~frame[t].availability.available

\* ------------------------------------------------------------------- C8
AllUnreachable(o) ==
    \A k \in 1..Len(test_urls) : o[k].kind \in {"ConnectionError", "Timeout"}

\* C8: when all three endpoints fail with a connection error or a timeout,
\* check_internet_availability ends after probing each endpoint exactly once
\* and returns available=false, status_code=0, ping absent, test_url absent.
C8_AllFailResult ==
    \A t \in Threads :
        (Checked(t) /\ AllUnreachable(frame[t].outcomes)) =>
            /\ frame[t].availability =
                  [available |-> FALSE, status_code |-> 0, ping |-> Null, test_url |-> Null]
            /\ frame[t].probed = test_urls

\* a check in which the three endpoints failed, with both kinds of failure
C8_Witness ==
    \E t \in Threads :
        /\ Checked(t)
        /\ AllUnreachable(frame[t].outcomes)
        /\ frame[t].outcomes[1].kind = "ConnectionError"
        /\ frame[t].outcomes[3].kind = "Timeout"
        /\ Len(frame[t].probed) = 3
        /\ pc[t] = "assemble"

\* ------------------------------------------------------------------- C9
\* rates are in hundredths of a kbit/s: rate / 100 = delta * 8 / RateDen
RateDen == KBIT * RATE_INTERVAL
SentDelta == reads.cur.sent - reads.prev.sent
RecvDelta == reads.cur.recv - reads.prev.recv

\* C9 (as stated): after any sequence of get_traffic_usage calls the baseline
\* holds the absolute counters the most recent call read, and the rate that
\* call reported is exactly (counters of this call - counters of the previous
\* call or of initialisation) * 8 / 1024 / 10.
C9_RateExact ==
    last_traffic # Null =>
        /\ traffic_stats = reads.cur
        /\ last_traffic[1].sent_rate_kbps * RateDen = SentDelta * 8 * 100
        /\ last_traffic[1].recv_rate_kbps * RateDen = RecvDelta * 8 * 100

\* rate is within half a hundredth of delta * 8 / 1024 / 10
Within(rate, delta) ==
    LET d == rate * RateDen - delta * 8 * 100
    IN  2 * d <= RateDen /\ -2 * d <= RateDen

\* C9 (amended): the baseline holds the absolute counters the most recent
\* call read (never a delta), and the rate that call reported is
\* (this call's counters - the previous call's) * 8 / 1024 / 10 rounded to two
\* decimals, i.e. within half a hundredth of it; a +102400-byte delta gives 80.
C9_RateRounded ==
    last_traffic # Null =>
        /\ traffic_stats = reads.cur
        /\ Within(last_traffic[1].sent_rate_kbps, SentDelta)
        /\ Within(last_traffic[1].recv_rate_kbps, RecvDelta)
        /\ SentDelta = 102400 => last_traffic[1].sent_rate_kbps = 8000

\* the second call reads 102400 more bytes sent than the first and reports 80.00
C9_Witness ==
    /\ ncalls >= 2
    /\ last_traffic # Null
    /\ SentDelta = 102400
    /\ last_traffic[1].sent_rate_kbps = 8000
    /\ traffic_stats.sent = 102401

\* ------------------------------------------------------------------ C10
\* C10: the snapshot get_all_stats returns carries the tracker's last-down
\* value as it stands after the tracker has processed that tick's result: the
\* onset timestamp on the tick that detects the outage, "Never" on the tick
\* that detects the recovery.
C10_LastDownAfterTracker ==
    \A t \in Threads :
        pc[t] = "return" => frame[t].stats.last_down = LastDownField(last_down_time)

\* ------------------------------------------------------------------ C11
\* C11: after every completed get_all_stats call, last_down_time is non-null
\* exactly when the most recent connectivity check returned available=false
\* (a restoration is logged only on an available=true result, so none has been
\* logged since that outage began).
C11_DownIffUnavailable ==
    (ncalls > 0 /\ hist[ncalls].completed) =>
        ((last_down_time # Null) <=> ~hist[ncalls].available)

\* ------------------------------------------------------------------ C12
\* the positions of the connections get_network_processes reports: established,
\* with a PID, of a process whose name could be read
Eligible(conns) ==
    {i \in 1..Len(conns) :
        /\ conns[i].status = "ESTABLISHED"
        /\ conns[i].pid # 0
        /\ conns[i].lookup = "ok"}
\* the position of the j-th of them
NthEligible(conns, j) ==
    CHOOSE i \in Eligible(conns) : Cardinality({k \in Eligible(conns) : k <= i}) = j
Min(a, b) == IF a <= b THEN a ELSE b

\* C12: get_network_processes never returns more than 20 entries; the entries
\* are the first 20, in enumeration order, of the established connections with
\* a PID and a resolvable process (vanished and inaccessible ones are skipped,
\* the call still returns); when the enumeration fails the list is empty.
C12_FirstTwenty ==
    \A t \in Threads :
        pc[t] = "return" =>
            LET procs == frame[t].stats.processes
                h == hist[frame[t].id]
            IN  /\ Len(procs) <= 20
                /\ ~h.enum_ok => procs = <<>>
                /\ h.enum_ok =>
                      /\ Len(procs) = Min(20, Cardinality(Eligible(h.conns)))
                      /\ \A j \in 1..Len(procs) :
                            /\ procs[j].pid = h.conns[NthEligible(h.conns, j)].pid
                            /\ procs[j].status = "ESTABLISHED"

\* more than 20 reportable connections, a vanished process among the first
\* ones: 20 entries come back and the entry after the gap is the next process
C12_Witness ==
    \E t \in Threads :
        /\ pc[t] = "return"
        /\ hist[frame[t].id].enum_ok
        /\ Cardinality(Eligible(hist[frame[t].id].conns)) > 20
        /\ hist[frame[t].id].conns[3].lookup = "NoSuchProcess"
        /\ Len(frame[t].stats.processes) = 20
        /\ frame[t].stats.processes[3].pid = 4

C14_SpeedOnlyWhenAvailable ==
    /\ \A id \in CallIds :
          /\ hist[id].launched <= 1
          /\ hist[id].launched = 1 => (hist[id].started /\ hist[id].available)
          /\ speed_thread[id] # "none" <=> hist[id].launched = 1
          /\ (hist[id].started /\ ~hist[id].available) =>
                (hist[id].launched = 0 /\ speed_result[id] = NoSpeed)
    /\ \A t \in Threads :
          (pc[t] = "return" /\ ~frame[t].stats.availability.available) =>
              /\ Jsonify(frame[t].stats).speed.download = Null
              /\ Jsonify(frame[t].stats).speed.upload = Null

\* a call answered HTTP 400 returns its snapshot without speed and without a
\* thread, after an earlier call that was available and launched one
C14_Witness ==
    \E t \in Threads :
        /\ pc[t] = "return"
        /\ frame[t].stats.availability.status_code = 400
        /\ hist[frame[t].id].launched = 0
        /\ Jsonify(frame[t].stats).speed = NoSpeed
        /\ \E id \in CallIds :
              id < frame[t].id /\ hist[id].launched = 1 /\ speed_thread[id] = "done"

\* ------------------------------------------------------------------ C15
\* how many lines of lg are the message m
Count(lg, m) == Cardinality({i \in 1..Len(lg) : lg[i] = m})
InCall(t) == pc[t] \in {"check", "join", "assemble", "return"}

\* C15: a repeated result causes no transition: a check in which every endpoint
\* failed while last_down_time is set leaves the onset timestamp as it is and
\* logs no CRITICAL event; no step of a call whose result is available=true
\* taken while last_down_time is null sets it or logs a restoration.
C15_NoRepeatedTransition ==
    [][\A t \in Threads :
          /\ (/\ pc[t] = "check" /\ pc'[t] # "check"
              /\ frame'[t].availability = NoAvailability
              /\ last_down_time # Null) =>
                 /\ last_down_time' = last_down_time
                 /\ Count(log', CRIT_DOWN) = Count(log, CRIT_DOWN)
          /\ (/\ InCall(t) /\ pc'[t] # pc[t]
              /\ frame'[t].availability.available
              /\ last_down_time = Null) =>
                 /\ last_down_time' = Null
                 /\ Count(log', INFO_RESTORED) = Count(log, INFO_RESTORED)]_vars

\* the first call was available and logged nothing, the second detected the
\* outage, the third has just found every endpoint failing again, later on the
\* clock: the onset is still the second call's and one CRITICAL is logged
C15_Witness ==
    /\ ncalls = 3
    /\ hist[1].completed /\ hist[1].available /\ ~hist[1].went_up
    /\ hist[2].completed /\ hist[2].went_down
    /\ pc[BG] = "assemble"
    /\ frame[BG].availability = NoAvailability
    /\ ~hist[3].went_down
    /\ last_down_time # Null
    /\ last_down_time[1] < now
    /\ Count(log, CRIT_DOWN) = 1
    /\ Count(log, INFO_RESTORED) = 0

\* ------------------------------------------------------------------ C16
\* C16: GET /api/logs returns the last min(50, n) lines of the n-line log in
\* file order, an empty list when the log file does not exist, and leaves the
\* log as it is.
C16_LastFiftyLines ==
    [][logs_response' # logs_response =>
          LET out == logs_response'[1].logs
              n == Len(log)
          IN  /\ log' = log
              /\ logs_response'[1].found =>
                    /\ Len(out) = Min(50, n)
                    /\ \A j \in 1..Len(out) : out[j] = log[n - Len(out) + j]
              /\ ~logs_response'[1].found => out = <<>>]_vars

\* the file held 49 old lines, the outage added four: the answer is old lines
\* 4 to 49 followed by the three request errors and the CRITICAL line
C16_Witness ==
    /\ logs_response # Null
    /\ logs_response[1].found
    /\ Len(log) = 53
    /\ Len(logs_response[1].logs) = 50
    /\ logs_response[1].logs[1] = OldLine(4)
    /\ logs_response[1].logs[46] = OldLine(49)
    /\ logs_response[1].logs[47] = ERR_REQUEST
    /\ logs_response[1].logs[50] = CRIT_DOWN

\* ------------------------------------------------------------------ C17
Running == {id \in CallIds : speed_thread[id] = "running"}
WaitsOn(t, id) == pc[t] = "join" /\ frame[t].id = id

\* C17 (as stated): while a speed-test task runs nothing else of the monitor
\* executes: no collector of its own call, no later get_all_stats call, no
\* second speed-test task; at most one speed-test task is in flight.
C17_SpeedTaskRunsAlone ==
    /\ Cardinality(Running) <= 1
    /\ \A id \in Running : \A t \in Threads : InCall(t) => WaitsOn(t, id)

\* C17 (amended): while get_all_stats is blocked in its wait of at most 8
\* seconds on the speed-test task it launched, it holds cache_lock and no
\* collector and no other get_all_stats call executes; a running task is
\* either waited on by its call or was abandoned by it when the wait timed out
\* (abandoned tasks keep running beside later work and later tasks), and at
\* most one task that was not abandoned is in flight.
C17_NothingOverlapsTheWait ==
    /\ \A t \in Threads :
          pc[t] = "join" =>
              (cache_lock = t /\ \A u \in Threads \ {t} : ~InCall(u))
    /\ \A id \in Running :
          (\E t \in Threads : WaitsOn(t, id)) \/ hist[id].timed_out
    /\ Cardinality({id \in Running : ~hist[id].timed_out}) <= 1

\* the refresher waits on the second call's speed test while the first
\* call's, abandoned after 8 seconds, still runs and a request waits for the
\* lock
C17_Witness ==
    /\ WaitsOn(BG, 2)
    /\ Running = {1, 2}
    /\ hist[1].timed_out
    /\ ~hist[2].timed_out
    /\ \E r \in Readers : pc[r] = "acquire"

\* ------------------------------------------------------------------ C18
\* C18: no two executions of get_all_stats overlap: whoever executes it, the
\* refresher or a request recomputing inline, holds cache_lock, so at most one
\* thread at a time is between its entry and its return, where last_down_time
\* and the traffic baseline are read and written.
C18_CallsNeverOverlap ==
    /\ \A t \in Threads : InCall(t) => cache_lock = t
    /\ Cardinality({t \in Threads : InCall(t)}) <= 1

\* a request recomputes inline, holding the lock, while the refresher, which
\* has run a call before, is due again and waits for the lock
C18_Witness ==
    \E r \in Readers :
        /\ pc[r] = "assemble"
        /\ cache_lock = r
        /\ pc[BG] = "acquire"
        /\ cache_time > 0
        /\ frame[r].id >= 2

\* ------------------------------------------------------------------ C19
\* C19: the background refresher runs forever whatever the probes and the
\* collectors do, their failures included: after every refresh there is a later
\* one.  What a finite run can refute of it: the refresher thread never ends.
C19_RefresherRunsForever == pc[BG] # "dead"

\* ------------------------------------------------------------------ C20
IsTransition(m) == m \in {CRIT_DOWN, INFO_RESTORED}
\* the CRITICAL and the restoration lines of the log, in order
Transitions == SelectSeq(log, IsTransition)

\* C20: over any sequence of get_all_stats calls the CRITICAL "INTERNET DOWN"
\* lines and the INFO "INTERNET RESTORED" lines of the log alternate strictly,
\* the first being a CRITICAL: no restoration without an unmatched down event
\* before it, no two down events without a restoration between them.
C20_DownRestoredAlternate ==
    \A i \in 1..Len(Transitions) :
        Transitions[i] = IF i % 2 = 1 THEN CRIT_DOWN ELSE INFO_RESTORED

\* an outage, its restoration and a second outage, in three calls
C20_Witness ==
    /\ Transitions = <<CRIT_DOWN, INFO_RESTORED, CRIT_DOWN>>
    /\ hist[1].went_down /\ hist[2].went_up /\ hist[3].went_down
    /\ last_down_time # Null

====
